---- MODULE Spec2Model ----
(***************************************************************************)
(* A model of the GloMPO core: the predicate algebra of hunters and        *)
(* checkers (common/corebase.py), the optimizer log                        *)
(* (core/optimizerlogger.py) and the worker loops of the CMA and GFLS      *)
(* optimizers (optimizers/cmawrapper.py, optimizers/gflswrapper.py).       *)
(***************************************************************************)
EXTENDS Integers, Sequences, FiniteSets, TLC

VARIABLES
    \* ---- predicate tree (corebase.py)
    root,       \* the object graph of the tree under test, _last_result included
    lastop,     \* "init" | "call" | "reset": the last top-level operation on root
    args,       \* what each leaf returns in the last top-level evaluation
    invoked,    \* ids of the leaves whose __call__ ran in the last evaluation
    ret,        \* value returned by the last top-level evaluation
    evaluated,  \* whether root has been evaluated at least once
    lastrun,    \* the last operation in detail: the tree it was applied to,
                \* its operands, what it returned or raised
    \* ---- optimizer log (optimizerlogger.py)
    storage,    \* OptimizerLogger._storage: opt_id -> _OptimizerLogger
    err,        \* how the last call on the log ended: "ok" or the exception
    lastcall,   \* the last call made on the log and its arguments
    added,      \* the opt_ids add_optimizer has been called with
    finals,     \* the opt_ids whose final iteration has been appended
    nops,       \* number of calls made on the log
    appends,    \* opt_id -> the iterations appended to its stream, in order
    reader,     \* what a caller of get_history holds, then and now
    \* ---- one worker and its channels (cmawrapper.py, gflswrapper.py)
    kind,        \* "CMA" | "GFLS": the optimizer class of the worker
    cfg,         \* the arguments minimize was called with
    pc,          \* the worker's position in minimize
    queue,       \* _results_queue: the packets put so far, oldest first
    pipe,        \* _signal_pipe, manager to worker: messages not yet received
    outbox,      \* _signal_pipe, worker to manager: messages sent
    pause,       \* _pause_signal: TRUE when the event is set (run allowed)
    countiter,   \* es.countiter (CMA) / logger.current (GFLS)
    has_x,       \* CMA: x is not None
    callbackstop,\* CMA: es.callbackstop
    stopcond,    \* GFLS: the driver's stopcond
    dirs,        \* directories that exist on disk
    exc,         \* the exception that ended minimize, "None" if none
    nsent,       \* number of signals the manager has sent
    nevals,      \* rounds of objective evaluations made
    stopread,    \* length of queue when the stop signal was received, or -1
    sinceclear,  \* packets and evaluation rounds since the flag was cleared
    stopblocked, \* nevals when stop was sent to a CMA worker blocked on the
                 \* cleared pause flag, or -1
    \* ---- the manager's worker handles (spec section 4.5)
    max_jobs,    \* total concurrent compute slots
    handles,     \* opt_id -> [state, slots]: the handle of every worker spawned
    \* ---- loading the ParAMS collections (interfaces/params.py)
    files,       \* file name -> version of its content, 0 if it does not exist
    dat_set,     \* the DataSet object: the loads made into it, in order
    job_col,     \* the JobCollection object: the loads made into it, in order
    perr,        \* "None", or the exception the call raised
    pcalled      \* TRUE once _setup_collections_from_params has been called

treeVars == <<root, lastop, args, invoked, ret, evaluated, lastrun>>

logVars == <<storage, err, lastcall, added, finals, nops, appends, reader>>

workerVars == <<kind, cfg, pc, queue, pipe, outbox, pause, countiter, has_x,
                callbackstop, stopcond, dirs, exc, nsent, nevals, stopread,
                sinceclear, stopblocked>>

managerVars == <<max_jobs, handles>>

paramsVars == <<files, dat_set, job_col, perr, pcalled>>

vars == <<treeVars, logVars, workerVars, managerVars, paramsVars>>

\* ------------------------------------------------------------------------
\* Bounds
\* ------------------------------------------------------------------------

\* Largest number of leaves of a predicate tree.
MaxLeaves == 3

\* Largest number of calls made on the log in one run.
MaxOps == 4

\* Largest number of iterations of a worker's optimization loop.
MaxIter == 2

\* Largest number of signals the manager sends to a worker.
MaxSignals == 2

\* Largest max_jobs of a manager and largest number of workers it spawns.
MaxJobs == 3
MaxWorkers == 3

\* Number of different contents a ParAMS file may have.
MaxVersion == 2

\* ------------------------------------------------------------------------
\* Predicate trees: _CoreBase, _CombiCore, _OrCore, _AndCore
\* ------------------------------------------------------------------------

\* Python's None, True and False as they appear in _last_result.
PyBool(b) == IF b THEN "True" ELSE "False"

\* A leaf predicate just constructed (_CoreBase.__init__: _last_result = None).
\* id is the object's identity; stores tells whether its __call__ assigns
\* _last_result (as PseudoConverged does) or only returns its value (as the
\* TrueHunter and FalseHunter of the test-suite do).
Leaf(id, stores) ==
    [kind |-> "leaf", id |-> id, stores |-> stores, last_result |-> "None"]

\* _CombiCore.__init__ through _CoreBase.__or__ / __and__: a fresh node over
\* two existing predicates.
Combi(op, base1, base2) ==
    [kind |-> op, last_result |-> "None", base1 |-> base1, base2 |-> base2]

IsCombi(t) == t.kind \in {"or", "and"}

RECURSIVE reset(_)
RECURSIVE Call(_, _)
RECURSIVE Nodes(_)
RECURSIVE TreesOf(_, _)

\* _CoreBase.reset on a leaf.
LeafReset(t) == [t EXCEPT !.last_result = "None"]

\* A mutant of CombiReset: nothing is cleared.
CombiResetNothing(t) == t

\* _CombiCore.reset: clears both bases and resets them; the node's own
\* _last_result is not assigned.
CombiReset(t) ==
    [t EXCEPT !.base1 = reset([t.base1 EXCEPT !.last_result = "None"]),
              !.base2 = reset([t.base2 EXCEPT !.last_result = "None"])]

reset(t) == IF IsCombi(t) THEN CombiReset(t) ELSE LeafReset(t)

\* A leaf's __call__ with return value a[id].
LeafCall(t, a) ==
    [ret |-> a[t.id],
     obj |-> IF t.stores THEN [t EXCEPT !.last_result = PyBool(a[t.id])] ELSE t,
     inv |-> {t.id}]

\* A mutant of OrCall: both operands are always evaluated.
OrCallEager(t, a) ==
    LET r  == CombiReset(t)
        c1 == Call(r.base1, a)
        c2 == Call(r.base2, a)
        v  == IF c1.ret THEN c1.ret ELSE c2.ret
    IN  [ret |-> v,
         obj |-> [r EXCEPT !.base1 = c1.obj, !.base2 = c2.obj,
                           !.last_result = PyBool(v)],
         inv |-> c1.inv \cup c2.inv]

\* _OrCore.__call__: reset, then base1(...) or base2(...).
OrCall(t, a) ==
    LET r  == CombiReset(t)
        c1 == Call(r.base1, a)
    IN  IF c1.ret
        THEN [ret |-> c1.ret,
              obj |-> [r EXCEPT !.base1 = c1.obj,
                                !.last_result = PyBool(c1.ret)],
              inv |-> c1.inv]
        ELSE LET c2 == Call(r.base2, a)
             IN  [ret |-> c2.ret,
                  obj |-> [r EXCEPT !.base1 = c1.obj, !.base2 = c2.obj,
                                    !.last_result = PyBool(c2.ret)],
                  inv |-> c1.inv \cup c2.inv]

\* A mutant of AndCall: the value of the first operand is the result.
AndCallFirstOnly(t, a) ==
    LET r  == CombiReset(t)
        c1 == Call(r.base1, a)
    IN  [ret |-> c1.ret,
         obj |-> [r EXCEPT !.base1 = c1.obj, !.last_result = PyBool(c1.ret)],
         inv |-> c1.inv]

\* _AndCore.__call__: reset, then base1(...) and base2(...).
AndCall(t, a) ==
    LET r  == CombiReset(t)
        c1 == Call(r.base1, a)
    IN  IF ~c1.ret
        THEN [ret |-> c1.ret,
              obj |-> [r EXCEPT !.base1 = c1.obj,
                                !.last_result = PyBool(c1.ret)],
              inv |-> c1.inv]
        ELSE LET c2 == Call(r.base2, a)
             IN  [ret |-> c2.ret,
                  obj |-> [r EXCEPT !.base1 = c1.obj, !.base2 = c2.obj,
                                    !.last_result = PyBool(c2.ret)],
                  inv |-> c1.inv \cup c2.inv]

Call(t, a) ==
    CASE t.kind = "or"  -> OrCall(t, a)
      [] t.kind = "and" -> AndCall(t, a)
      [] OTHER          -> LeafCall(t, a)

\* Every node object of a tree.
Nodes(t) ==
    IF IsCombi(t) THEN {t} \cup Nodes(t.base1) \cup Nodes(t.base2) ELSE {t}

LeafIds(t) == {n.id : n \in {m \in Nodes(t) : ~IsCombi(m)}}

\* The trees with n leaves, numbered first .. first + n - 1 from left to
\* right, as built by expressions over | and & before any evaluation.
TreesOf(n, first) ==
    IF n = 1
    THEN {Leaf(first, s) : s \in BOOLEAN}
    ELSE UNION {{Combi(k, b1, b2) : k \in {"or", "and"},
                                    b1 \in TreesOf(m, first),
                                    b2 \in TreesOf(n - m, first + m)}
                : m \in 1 .. (n - 1)}

\* The hunter of test_kill_condition, built from TrueHunter and FalseHunter
\* (which do not store their result) with Python's precedence of & over |:
\* F | F & T | T & (T | F) is (F | (F & T)) | (T & (T | F)).
KillCondition ==
    Combi("or",
          Combi("or", Leaf(1, FALSE),
                      Combi("and", Leaf(2, FALSE), Leaf(3, FALSE))),
          Combi("and", Leaf(4, FALSE),
                       Combi("or", Leaf(5, FALSE), Leaf(6, FALSE))))

KillConditionArgs == <<FALSE, FALSE, TRUE, TRUE, TRUE, FALSE>>

Trees == UNION {TreesOf(n, 1) : n \in 1 .. MaxLeaves} \cup {KillCondition}

\* An object that is no predicate, as the 1 and 2 of test_combi_init.
NotAPredicate == [kind |-> "int"]

\* isinstance(base, _CoreBase)
IsCoreBase(x) == x.kind \in {"leaf", "or", "and"}

\* _CombiCore.__init__ as reached from _OrCore(base1, base2) and
\* _AndCore(base1, base2): TypeError unless both bases are predicates.
_CombiCore(op, base1, base2) ==
    IF ~IsCoreBase(base1) \/ ~IsCoreBase(base2)
    THEN [exc |-> "TypeError", obj |-> "None"]
    ELSE [exc |-> "None", obj |-> Combi(op, base1, base2)]

\* A mutant of __and__: an Or node is built.
and_builds_or(self, other) == _CombiCore("or", self, other)

\* _CoreBase.__or__ and __and__
__or__(self, other) == _CombiCore("or", self, other)

__and__(self, other) == _CombiCore("and", self, other)

RECURSIVE _bases(_)
RECURSIVE bases_right_first(_)
\* A mutant of _bases: base2 is visited before base1.
bases_right_first(t) ==
    (IF IsCombi(t.base2) THEN bases_right_first(t.base2) ELSE <<t.base2>>)
        \o (IF IsCombi(t.base1) THEN bases_right_first(t.base1)
            ELSE <<t.base1>>)

\* _CombiCore._bases: for base in (base1, base2), the items of
\* base._bases() when base is a combination, base itself otherwise.
_bases(t) ==
    (IF IsCombi(t.base1) THEN _bases(t.base1) ELSE <<t.base1>>)
        \o (IF IsCombi(t.base2) THEN _bases(t.base2) ELSE <<t.base2>>)

\* list(t): _CombiCore.__iter__ returns _bases(), _CoreBase.__iter__
\* returns iter([self]).
__iter__(t) == IF IsCombi(t) THEN _bases(t) ELSE <<t>>

NoRun == [op |-> "init"]

TreeInit ==
    /\ root \in Trees
    /\ lastop = "init"
    /\ args = <<>>
    /\ invoked = {}
    /\ ret = "None"
    /\ evaluated = FALSE
    /\ lastrun = NoRun

\* A top-level evaluation root(*args): every leaf's answer is an input.
TreeCall ==
    /\ \E a \in [LeafIds(root) -> BOOLEAN] :
        LET c == Call(root, a)
        IN  /\ root' = c.obj
            /\ lastop' = "call"
            /\ args' = a
            /\ invoked' = c.inv
            /\ ret' = PyBool(c.ret)
            /\ evaluated' = TRUE
            /\ lastrun' = [op |-> "call", before |-> root]
    /\ UNCHANGED <<logVars, workerVars, managerVars, paramsVars>>

\* A top-level root.reset().
TreeReset ==
    /\ root' = reset(root)
    /\ lastop' = "reset"
    /\ lastrun' = [op |-> "reset", before |-> root]
    /\ UNCHANGED <<args, invoked, ret, evaluated>>
    /\ UNCHANGED <<logVars, workerVars, managerVars, paramsVars>>

\* list(root): the tree is iterated.
TreeIter ==
    /\ lastop' = "iter"
    /\ lastrun' = [op |-> "iter", before |-> root, listed |-> __iter__(root)]
    /\ UNCHANGED <<root, args, invoked, ret, evaluated>>
    /\ UNCHANGED <<logVars, workerVars, managerVars, paramsVars>>

\* What root may be combined with: predicates with fresh leaves, of any
\* nesting, and an object that is no predicate.
Operands ==
    LET n == Cardinality(LeafIds(root))
    IN  UNION {TreesOf(k, n + 1) : k \in 1 .. (MaxLeaves - n)}
            \cup {NotAPredicate}

\* The operand pairs of root | other and root & other, and of the
\* constructors called directly on objects that are no predicates, as
\* _CombiCore(1, 2) in test_combi_init.
OperandPairs ==
    {<<root, other>> : other \in Operands}
        \cup {<<NotAPredicate, root>>, <<NotAPredicate, NotAPredicate>>}

\* A tree is composed before it is used: root is combined with another
\* operand and the new node becomes the tree under test; when the
\* constructor raises, nothing is created.
TreeCombine ==
    /\ ~evaluated /\ lastop \in {"init", "combine"}
    /\ root # KillCondition
    /\ \E op \in {"or", "and"}, bases \in OperandPairs :
        LET r == IF op = "or" THEN __or__(bases[1], bases[2])
                 ELSE __and__(bases[1], bases[2])
        IN  /\ root' = IF r.exc = "None" THEN r.obj ELSE root
            /\ lastop' = "combine"
            /\ lastrun' = [op |-> op, before |-> root, base1 |-> bases[1],
                           base2 |-> bases[2], exc |-> r.exc]
    /\ UNCHANGED <<args, invoked, ret, evaluated>>
    /\ UNCHANGED <<logVars, workerVars, managerVars, paramsVars>>

\* ------------------------------------------------------------------------
\* The optimizer log: OptimizerLogger and _OptimizerLogger
\* ------------------------------------------------------------------------

\* math.inf, the initial fx_best of a stream: larger than every fx.
Inf == 1000

\* The arguments the calls on the log are made with.
OptIds == {0, 1}
IterNums == {0, 1, 2}
FxVals == {1, 2, Inf}
MetaKeys == {"End Condition"}

\* A Python dict: the keys in insertion order and the value under each key.
\* Assigning to a key already present keeps the key's place.
EmptyDict == [keys |-> <<>>, at |-> <<>>]

DictSet(d, k, v) ==
    [keys |-> IF k \in DOMAIN d.at THEN d.keys ELSE Append(d.keys, k),
     at   |-> (k :> v) @@ d.at]

DictValues(d) == [j \in 1 .. Len(d.keys) |-> d.at[d.keys[j]]]

\* _OptimizerLogger.__init__
_OptimizerLogger(opt_id, class_name, time_start) ==
    [metadata  |-> ("Optimizer ID" :> ToString(opt_id))
                   @@ ("Optimizer Type" :> class_name)
                   @@ ("Start Time" :> time_start),
     history   |-> EmptyDict,
     messages  |-> <<>>,
     exit_cond |-> "None",
     fx_best   |-> Inf,
     i_best    |-> -1]

\* _OptimizerLogger.update_metadata
update_metadata(s, key, value) ==
    [s EXCEPT !.metadata = (key :> value) @@ @]

\* _OptimizerLogger.append: x is a sequence of numbers (a scalar x is stored
\* as the one-element list).
append(s, i, f_call_overall, f_call_opt, x, fx) ==
    LET better == fx < s.fx_best
        fxb    == IF better THEN fx ELSE s.fx_best
        ib     == IF better THEN i ELSE s.i_best
    IN  [s EXCEPT !.fx_best = fxb,
                  !.i_best  = ib,
                  !.history = DictSet(@, i,
                                  [f_call_overall |-> f_call_overall,
                                   f_call_opt     |-> f_call_opt,
                                   fx             |-> fx,
                                   i_best         |-> ib,
                                   fx_best        |-> fxb,
                                   x              |-> x])]

\* _OptimizerLogger.append_message
append_message(s, message) ==
    [s EXCEPT !.messages = Append(@, message)]

\* The outcome of a call on the log: the storage after it and how it ended.
Ok(st) == [storage |-> st, err |-> "ok"]
Raise(st, e) == [storage |-> st, err |-> e]

\* OptimizerLogger.add_optimizer: self._storage[opt_id] = _OptimizerLogger(...)
add_optimizer(st, opt_id, class_name, time_start) ==
    Ok([o \in DOMAIN st \cup {opt_id} |->
            IF o = opt_id
            THEN _OptimizerLogger(opt_id, class_name, time_start)
            ELSE st[o]])

\* A mutant of put_iteration: an unknown opt_id gets a stream of its own.
put_iteration_create(st, opt_id, i, f_call_overall, f_call_opt, x, fx) ==
    LET s == IF opt_id \in DOMAIN st THEN st[opt_id]
             ELSE _OptimizerLogger(opt_id, "None", "None")
    IN  Ok([o \in DOMAIN st \cup {opt_id} |->
               IF o = opt_id
               THEN append(s, i, f_call_overall, f_call_opt, x, fx)
               ELSE st[o]])

\* A mutant of put_iteration: the iteration is appended to every stream.
put_iteration_everywhere(st, opt_id, i, f_call_overall, f_call_opt, x, fx) ==
    IF opt_id \notin DOMAIN st
    THEN Raise(st, "KeyError")
    ELSE Ok([o \in DOMAIN st |->
                append(st[o], i, f_call_overall, f_call_opt, x, fx)])

\* OptimizerLogger.put_iteration: self._storage[opt_id] raises KeyError for
\* an opt_id that is not in the log.
put_iteration(st, opt_id, i, f_call_overall, f_call_opt, x, fx) ==
    IF opt_id \notin DOMAIN st
    THEN Raise(st, "KeyError")
    ELSE Ok([st EXCEPT ![opt_id] =
                append(@, i, f_call_overall, f_call_opt, x, fx)])

\* OptimizerLogger.put_metadata
put_metadata(st, opt_id, key, value) ==
    IF opt_id \notin DOMAIN st
    THEN Raise(st, "KeyError")
    ELSE Ok([st EXCEPT ![opt_id] = update_metadata(@, key, value)])

\* OptimizerLogger.put_message
put_message(st, opt_id, message) ==
    IF opt_id \notin DOMAIN st
    THEN Raise(st, "KeyError")
    ELSE Ok([st EXCEPT ![opt_id] = append_message(@, message)])

\* OptimizerLogger.get_history with a track: one series of the history, in
\* the order of the dict. (Called for an opt_id of the log.)
get_history(st, opt_id, track) ==
    LET vals == DictValues(st[opt_id].history)
    IN  [j \in 1 .. Len(vals) |-> vals[j][track]]

\* A mutant of __len__: the number of iterations held by all streams.
RECURSIVE SumLen(_, _)
SumLen(st, ids) ==
    IF ids = {} THEN 0
    ELSE LET o == CHOOSE o \in ids : TRUE
         IN  Len(st[o].history.keys) + SumLen(st, ids \ {o})

len_iterations(st) == SumLen(st, DOMAIN st)

\* OptimizerLogger.__len__
__len__(st) == Cardinality(DOMAIN st)

\* Nothing has been read from the log.
NoReader == [track |-> "none"]

\* What the reader holds after add_optimizer(opt_id): the stream object of
\* opt_id is replaced, so a history dict handed out earlier is no longer
\* the one the log writes to.
ReaderAfterAdd(opt_id) ==
    IF reader.track # "none" /\ reader.alias /\ reader.opt_id = opt_id
    THEN [reader EXCEPT !.alias = FALSE]
    ELSE reader

\* What the reader holds after a put_iteration for opt_id left the log in
\* st: a history dict handed out by get_history(opt_id) is the object
\* append writes to.
ReaderAfterPut(st, opt_id) ==
    IF reader.track # "none" /\ reader.alias /\ reader.opt_id = opt_id
    THEN [reader EXCEPT !.now = st[opt_id].history]
    ELSE reader

\* The tracks get_history is asked for; "None" is track=None.
Tracks == {"None", "fx_best", "x"}

LogInit ==
    /\ storage = <<>>
    /\ err = "ok"
    /\ lastcall = [op |-> "none"]
    /\ added = {}
    /\ finals = {}
    /\ nops = 0
    /\ appends = <<>>
    /\ reader = NoReader

\* log.add_optimizer(opt_id, class_name, time_start)
AddOptimizer ==
    /\ nops < MaxOps
    /\ \E o \in OptIds :
        LET r == add_optimizer(storage, o, "Opt", "t0")
        IN  /\ storage' = r.storage
            /\ err' = r.err
            /\ lastcall' = [op |-> "add_optimizer", opt_id |-> o]
            /\ added' = IF r.err = "ok" THEN added \cup {o} ELSE added
            /\ appends' = [p \in DOMAIN r.storage |->
                              IF p = o \/ p \notin DOMAIN appends THEN <<>>
                              ELSE appends[p]]
            /\ reader' = ReaderAfterAdd(o)
    /\ nops' = nops + 1
    /\ UNCHANGED finals
    /\ UNCHANGED <<treeVars, workerVars, managerVars, paramsVars>>

\* log.put_iteration(...) for a packet IterationResult(opt_id, n_iter, _, x,
\* fx, final). The parameter vector and the call counts of a call are named
\* by the call's sequence number; final is the packet's flag, for which
\* put_iteration has no parameter.
PutIteration ==
    /\ nops < MaxOps
    /\ \E o \in OptIds, i \in IterNums, fx \in FxVals, final \in BOOLEAN :
        LET r == put_iteration(storage, o, i, nops + 1, nops + 1,
                               <<nops + 1>>, fx)
        IN  /\ storage' = r.storage
            /\ err' = r.err
            /\ lastcall' = [op |-> "put_iteration", opt_id |-> o, i |-> i,
                            fx |-> fx, final |-> final]
            /\ finals' = IF r.err = "ok" /\ final THEN finals \cup {o}
                         ELSE finals
            /\ appends' = IF r.err = "ok"
                          THEN [appends EXCEPT
                                   ![o] = Append(@, [i |-> i, fx |-> fx,
                                                     x |-> <<nops + 1>>,
                                                     f_call_opt |-> nops + 1])]
                          ELSE appends
            /\ reader' = IF r.err = "ok" THEN ReaderAfterPut(r.storage, o)
                         ELSE reader
    /\ nops' = nops + 1
    /\ UNCHANGED added
    /\ UNCHANGED <<treeVars, workerVars, managerVars, paramsVars>>

\* log.put_metadata(opt_id, key, value)
PutMetadata ==
    /\ nops < MaxOps
    /\ \E o \in OptIds, k \in MetaKeys :
        LET r == put_metadata(storage, o, k, "converged")
        IN  /\ storage' = r.storage
            /\ err' = r.err
            /\ lastcall' = [op |-> "put_metadata", opt_id |-> o]
    /\ nops' = nops + 1
    /\ UNCHANGED <<added, finals, appends, reader>>
    /\ UNCHANGED <<treeVars, workerVars, managerVars, paramsVars>>

\* log.put_message(opt_id, message)
PutMessage ==
    /\ nops < MaxOps
    /\ \E o \in OptIds :
        LET r == put_message(storage, o, "msg")
        IN  /\ storage' = r.storage
            /\ err' = r.err
            /\ lastcall' = [op |-> "put_message", opt_id |-> o]
    /\ nops' = nops + 1
    /\ UNCHANGED <<added, finals, appends, reader>>
    /\ UNCHANGED <<treeVars, workerVars, managerVars, paramsVars>>

\* log.get_history(opt_id, track): with a track a new list is built from
\* the entries; with track=None the history dict of the stream itself is
\* returned, so the caller holds the object later appends write to.
GetHistory ==
    /\ nops < MaxOps
    /\ \E o \in OptIds, track \in Tracks :
        IF o \notin DOMAIN storage
        THEN /\ err' = "KeyError"
             /\ lastcall' = [op |-> "get_history", opt_id |-> o]
             /\ UNCHANGED reader
        ELSE LET v == IF track = "None" THEN storage[o].history
                      ELSE get_history(storage, o, track)
             IN  /\ err' = "ok"
                 /\ lastcall' = [op |-> "get_history", opt_id |-> o]
                 /\ reader' = [track |-> track, opt_id |-> o,
                               alias |-> track = "None",
                               atread |-> v, now |-> v]
    /\ nops' = nops + 1
    /\ UNCHANGED <<storage, added, finals, appends>>
    /\ UNCHANGED <<treeVars, workerVars, managerVars, paramsVars>>

\* Python values of mixed type: a number or list, None, float('nan').
Val(v) == [val |-> v]
PyNone == [none |-> TRUE]
PyNaN == [nan |-> TRUE]

\* The entry save_summary computes for one optimizer (lines 95-111), or
\* the KeyError of opt_history[i_tot] or of metadata["End Condition"].
SummaryEntry(s) ==
    LET opt_history == s.history.at
        i_tot       == Len(s.history.keys)
    IN  IF i_tot > 0 /\ i_tot \notin DOMAIN opt_history
        THEN [exc |-> "KeyError"]
        ELSE IF "End Condition" \notin DOMAIN s.metadata
        THEN [exc |-> "KeyError"]
        ELSE IF i_tot > 0 /\ opt_history[i_tot].i_best > -1
        THEN LET last == opt_history[i_tot]
                 best == opt_history[last.i_best]
             IN  [exc      |-> "None",
                  end_cond |-> s.metadata["End Condition"],
                  f_calls  |-> Val(last.f_call_opt),
                  f_best   |-> Val(best.fx_best),
                  x_best   |-> Val(best.x)]
        ELSE [exc      |-> "None",
              end_cond |-> s.metadata["End Condition"],
              f_calls  |-> PyNone,
              f_best   |-> PyNaN,
              x_best   |-> PyNone]

\* OptimizerLogger.save_summary: the sum_data written to the file, one
\* entry per optimizer, unless an entry raises.
save_summary(st) ==
    IF \E o \in DOMAIN st : SummaryEntry(st[o]).exc # "None"
    THEN [exc |-> "KeyError", sum_data |-> <<>>]
    ELSE [exc |-> "None",
          sum_data |-> [o \in DOMAIN st |-> SummaryEntry(st[o])]]

\* The file names save_optimizer writes to.
SaveNames == {"out"}

\* The opt_id argument of save_optimizer; None is the default.
SaveArgs == {Val(o) : o \in OptIds} \cup {PyNone}

\* if opt_id: -- None and 0 are both false.
Truthy(opt_id) == opt_id # PyNone /\ opt_id # Val(0)

\* OptimizerLogger._write_file: the file and the optimizer written to it.
\* The file is opened before self._storage[opt_id] is read.
_write_file(st, opt_id, filename) ==
    [exc   |-> IF opt_id \in DOMAIN st THEN "None" ELSE "KeyError",
     files |-> {[path |-> filename \o ".yml",
                 opt  |-> IF opt_id \in DOMAIN st THEN Val(opt_id)
                          ELSE PyNone]}]

\* OptimizerLogger.save_optimizer: the files written. Without a true
\* opt_id every optimizer is written into the directory name, under
\* "<opt_id>_<type>" (max() of an empty log raises ValueError).
save_optimizer(st, name, opt_id) ==
    IF Truthy(opt_id)
    THEN _write_file(st, opt_id.val, name)
    ELSE IF DOMAIN st = {}
    THEN [exc |-> "ValueError", files |-> {}]
    ELSE [exc   |-> "None",
          files |-> UNION {_write_file(st, o,
                               name \o "/" \o st[o].metadata["Optimizer ID"]
                                    \o "_"
                                    \o st[o].metadata["Optimizer Type"]).files
                           : o \in DOMAIN st}]

\* log.save_summary(name)
SaveSummary ==
    /\ nops < MaxOps
    /\ LET r == save_summary(storage)
       IN  /\ err' = IF r.exc = "None" THEN "ok" ELSE r.exc
           /\ lastcall' = [op |-> "save_summary", sum_data |-> r.sum_data]
    /\ nops' = nops + 1
    /\ UNCHANGED <<storage, added, finals, appends, reader>>
    /\ UNCHANGED <<treeVars, workerVars, managerVars, paramsVars>>

\* log.save_optimizer(name, opt_id)
SaveOptimizer ==
    /\ nops < MaxOps
    /\ \E name \in SaveNames, o \in SaveArgs :
        LET r == save_optimizer(storage, name, o)
        IN  /\ err' = IF r.exc = "None" THEN "ok" ELSE r.exc
            /\ lastcall' = [op |-> "save_optimizer", name |-> name,
                            opt_id |-> o, files |-> r.files]
    /\ nops' = nops + 1
    /\ UNCHANGED <<storage, added, finals, appends, reader>>
    /\ UNCHANGED <<treeVars, workerVars, managerVars, paramsVars>>

\* ------------------------------------------------------------------------
\* Loading ParAMS collections: _setup_collections_from_params
\* ------------------------------------------------------------------------

\* {'data_set': dat_set, 'job_collection': job_col}, in insertion order.
CollectionNames == <<"data_set", "job_collection">>

\* {'.pkl': 'pickle_load', '.yml': 'load'}, in insertion order.
Loaders == <<[suffix |-> ".pkl", loader |-> "pickle_load"],
             [suffix |-> ".yml", loader |-> "load"]>>

\* The files the function looks for in path.
FileNames == {CollectionNames[n] \o Loaders[k].suffix :
                 n \in DOMAIN CollectionNames, k \in DOMAIN Loaders}

\* file.exists()
Exists(fs, file) == fs[file] > 0

\* The inner loop over the loaders for one collection: the calls
\* getattr(params_obj, loader)(str(file)) made, in order, each with the
\* content it reads. The loop has no break: every existing file is loaded.
RECURSIVE LoadAll(_, _, _)
LoadAll(fs, name, k) ==
    IF k > Len(Loaders) THEN <<>>
    ELSE LET file == name \o Loaders[k].suffix
         IN  (IF Exists(fs, file)
              THEN <<[loader  |-> Loaders[k].loader,
                      file    |-> file,
                      content |-> fs[file]]>>
              ELSE <<>>) \o LoadAll(fs, name, k + 1)

\* _setup_collections_from_params(path): the two objects as the loads
\* left them and the exception raised; built is false exactly when no load
\* was made, and the first collection without a file ends the call.
_setup_collections_from_params(fs) ==
    LET d == LoadAll(fs, CollectionNames[1], 1)
        j == LoadAll(fs, CollectionNames[2], 1)
    IN  IF d = <<>>
        THEN [exc |-> "FileNotFoundError", dat_set |-> <<>>, job_col |-> <<>>]
        ELSE IF j = <<>>
        THEN [exc |-> "FileNotFoundError", dat_set |-> d, job_col |-> <<>>]
        ELSE [exc |-> "None", dat_set |-> d, job_col |-> j]

\* The folder before the call: any of the four files present or not.
ParamsInit ==
    /\ files \in [FileNames -> 0 .. MaxVersion]
    /\ dat_set = <<>>
    /\ job_col = <<>>
    /\ perr = "None"
    /\ pcalled = FALSE

\* No folder and no call: the component at rest in the other specifications.
ParamsNone ==
    /\ files = [f \in FileNames |-> 0]
    /\ dat_set = <<>>
    /\ job_col = <<>>
    /\ perr = "None"
    /\ pcalled = FALSE

\* dat_set, job_col = _setup_collections_from_params(path)
SetupCollections ==
    /\ ~pcalled
    /\ LET r == _setup_collections_from_params(files)
       IN  /\ dat_set' = r.dat_set
           /\ job_col' = r.job_col
           /\ perr' = r.exc
    /\ pcalled' = TRUE
    /\ UNCHANGED files
    /\ UNCHANGED <<treeVars, logVars, workerVars, managerVars>>

\* ------------------------------------------------------------------------
\* The hunter PseudoConverged, evaluated on the log
\* ------------------------------------------------------------------------

\* The arguments PseudoConverged is built with: calls, and tol in hundredths.
Calls == {0, 1, 2}
TolPcts == {0, 50}

\* The evaluations an iteration may take.
Steps == {1, 2}

Abs(v) == IF v < 0 THEN 0 - v ELSE v

\* abs(fbest_current - fbest_calls) <= abs(fbest_calls * tol) in floating
\* point, tol being tolpct / 100: inf - inf and inf * 0 are nan and every
\* comparison with nan is False.
WithinTol(fbest_current, fbest_calls, tolpct) ==
    LET lhs == IF fbest_current = Inf /\ fbest_calls = Inf THEN "nan"
               ELSE IF fbest_current = Inf \/ fbest_calls = Inf THEN "inf"
               ELSE "finite"
        rhs == IF fbest_calls = Inf
               THEN (IF tolpct = 0 THEN "nan" ELSE "inf")
               ELSE "finite"
    IN  CASE lhs = "nan" \/ rhs = "nan" -> FALSE
          [] lhs = "inf"                -> rhs = "inf"
          [] rhs = "inf"                -> TRUE
          [] OTHER -> 100 * Abs(fbest_current - fbest_calls)
                          <= Abs(fbest_calls * tolpct)

RECURSIVE WalkBack(_, _, _, _)
\* The while loop of PseudoConverged.__call__ (lines 34-44): i and
\* nearest_iter on entry; the value of i on leaving the loop, or the
\* IndexError of fcalls[-2 - i].
WalkBack(fcalls, calls, i, nearest_iter) ==
    IF fcalls[Len(fcalls)] - nearest_iter < calls
    THEN IF i + 3 > Len(fcalls)
         THEN [exc |-> "IndexError", i |-> i + 1]
         ELSE WalkBack(fcalls, calls, i + 1, fcalls[Len(fcalls) - i - 2])
    ELSE [exc |-> "None", i |-> i]

\* PseudoConverged(calls, tol).__call__(log, regressor, hunter_opt_id,
\* victim_opt_id): what it returns, or the exception it raises, and the
\* _last_result of the hunter afterwards, which __init__ sets to None and
\* every return statement assigns.
Returns(v) == [exc |-> "None", ret |-> v, last_result |-> v]

Raises(e) == [exc |-> e, ret |-> "None", last_result |-> "None"]

PseudoConverged(st, calls, tolpct, victim_opt_id) ==
    IF victim_opt_id \notin DOMAIN st
    THEN Raises("KeyError")
    ELSE LET vals   == get_history(st, victim_opt_id, "fx_best")
             fcalls == get_history(st, victim_opt_id, "f_call_opt")
         IN  IF Len(fcalls) = 0
             THEN Raises("IndexError")
             ELSE IF fcalls[Len(fcalls)] <= calls
             THEN Returns("False")
             ELSE LET w == WalkBack(fcalls, calls, -1, fcalls[Len(fcalls)])
                      i == w.i + 2
                  IN  IF w.exc = "IndexError"
                      THEN Returns("False")
                      ELSE Returns(PyBool(WithinTol(vals[Len(vals)],
                                              vals[Len(vals) - i + 1],
                                              tolpct)))

\* An iteration of optimizer 1 reaches the log: the evaluations it used so
\* far are those of its latest record plus the iteration's own.
HuntPut ==
    /\ nops < MaxOps
    /\ \E i \in IterNums, fx \in FxVals, step \in Steps :
        LET fc   == IF 1 \in DOMAIN storage
                    THEN get_history(storage, 1, "f_call_opt") ELSE <<>>
            used == (IF fc = <<>> THEN 0 ELSE fc[Len(fc)]) + step
            r    == put_iteration(storage, 1, i, used, used, <<nops + 1>>, fx)
        IN  /\ storage' = r.storage
            /\ err' = r.err
            /\ lastcall' = [op |-> "put_iteration", opt_id |-> 1, i |-> i,
                            fx |-> fx, final |-> FALSE]
            /\ appends' = IF r.err = "ok"
                          THEN [appends EXCEPT
                                   ![1] = Append(@, [i |-> i, fx |-> fx,
                                                     x |-> <<nops + 1>>,
                                                     f_call_opt |-> used])]
                          ELSE appends
            /\ reader' = IF r.err = "ok" THEN ReaderAfterPut(r.storage, 1)
                         ELSE reader
    /\ nops' = nops + 1
    /\ UNCHANGED <<added, finals>>
    /\ UNCHANGED <<treeVars, workerVars, managerVars, paramsVars>>

\* A hunt: PseudoConverged(calls, tol)(log, regressor, hunter, victim).
HuntCall ==
    /\ \E calls \in Calls, tolpct \in TolPcts, victim \in OptIds :
        LET r == PseudoConverged(storage, calls, tolpct, victim)
        IN  /\ err' = IF r.exc = "None" THEN "ok" ELSE r.exc
            /\ lastcall' = [op |-> "PseudoConverged", calls |-> calls,
                            tolpct |-> tolpct, opt_id |-> victim,
                            ret |-> r.ret, last_result |-> r.last_result]
    /\ UNCHANGED <<storage, added, finals, nops, appends, reader>>
    /\ UNCHANGED <<treeVars, workerVars, managerVars, paramsVars>>

\* ------------------------------------------------------------------------
\* Workers: CMAOptimizer.minimize and GFLSOptimizer.minimize, with the
\* manager's end of the signal pipe and of the pause flag
\* ------------------------------------------------------------------------

\* The signals of the manager (spec section 6): 0 stops the worker, 1 with
\* a path asks it to save its state.
StopSignal == [type |-> "int", code |-> 0]
SaveSignal(path) == [type |-> "tuple", code |-> 1, path |-> path]
SavePaths == {"ckpt/opt"}

\* Messages no handler is registered for: an integer code and a tuple with
\* a code outside the signal table, and an object that is neither.
UnknownSignals ==
    { [type |-> "int", code |-> 7],
      [type |-> "tuple", code |-> 7, path |-> "ckpt/opt"],
      [type |-> "str", code |-> -1] }

Known(m) == m.type \in {"int", "tuple"} /\ m.code \in {0, 1}

\* BaseOptimizer._FROM_MANAGER_SIGNAL_DICT: the method a signal code is
\* dispatched to.
FROM_MANAGER_SIGNAL_DICT == (0 :> "callstop") @@ (1 :> "save_state")

\* IterationResult(opt_id, n_iter, i_fcalls, x, fx, final) as put on the
\* queue; the payload i_fcalls, x, fx is left out.
IterationResult(n_iter, final) ==
    [opt_id |-> 1, n_iter |-> n_iter, final |-> final]

\* The outcome of a check_messages call: what is left in the pipe, the
\* stop state, the directories on disk, the exception raised ("None" if it
\* returned) and whether callstop ran.
RECURSIVE CMA_check_messages(_, _)
RECURSIVE GFLS_drain(_, _, _)

\* CMAOptimizer.callstop: es.callbackstop = 1.
\* CMAOptimizer.save_state: warnings.warn(..., NotImplementedError) raises
\* TypeError, NotImplementedError being no Warning subclass.
\* BaseOptimizer.check_messages: while the pipe polls true, receive a
\* message and dispatch it; an unknown code is warned about and ignored.
CMA_check_messages(p, cbstop) ==
    IF p = <<>>
    THEN [pipe |-> p, callbackstop |-> cbstop, exc |-> "None",
          stopped |-> FALSE]
    ELSE LET m == Head(p)
             h == IF m.code \in DOMAIN FROM_MANAGER_SIGNAL_DICT
                  THEN FROM_MANAGER_SIGNAL_DICT[m.code] ELSE "unknown"
         IN  IF h = "unknown"
             THEN CMA_check_messages(Tail(p), cbstop)
             ELSE IF h = "callstop"
             THEN [CMA_check_messages(Tail(p), 1) EXCEPT !.stopped = TRUE]
             ELSE [pipe |-> Tail(p), callbackstop |-> cbstop,
                   exc |-> "TypeError", stopped |-> FALSE]

\* GFLSOptimizer.save_state: os.makedirs(path) when the name holds a "/"
\* (FileExistsError if the directory exists), then logger.save(name).
DirOf(path) == IF path = "ckpt/opt" THEN "ckpt" ELSE ""

\* The while loop of GFLSOptimizer.check_messages: conds collects what the
\* handlers return. An int or a tuple is looked up in the signal table
\* (KeyError when the code is not in it); any other object is warned about
\* and skipped.
GFLS_drain(p, conds, d) ==
    IF p = <<>>
    THEN [pipe |-> p, conds |-> conds, dirs |-> d, exc |-> "None"]
    ELSE LET m == Head(p)
             h == IF m.type \notin {"int", "tuple"} THEN "unparsed"
                  ELSE IF m.code \in DOMAIN FROM_MANAGER_SIGNAL_DICT
                  THEN FROM_MANAGER_SIGNAL_DICT[m.code] ELSE "KeyError"
         IN  IF h = "unparsed"
             THEN GFLS_drain(Tail(p), conds, d)
             ELSE IF h = "KeyError"
             THEN [pipe |-> Tail(p), conds |-> conds, dirs |-> d,
                   exc |-> "KeyError"]
             ELSE IF h = "callstop"
             THEN GFLS_drain(Tail(p), Append(conds, "Manager Termination"), d)
             ELSE IF DirOf(m.path) # "" /\ DirOf(m.path) \in d
                  THEN [pipe |-> Tail(p), conds |-> conds, dirs |-> d,
                        exc |-> "FileExistsError"]
                  ELSE GFLS_drain(Tail(p), Append(conds, "None"),
                                  d \cup ({DirOf(m.path)} \ {""}))

RECURSIVE JoinAnd(_)
\* mess += f"{cond} AND " for every cond, then mess[:-5].
JoinAnd(conds) ==
    IF Len(conds) = 1 THEN conds[1]
    ELSE conds[1] \o " AND " \o JoinAnd(Tail(conds))

\* GFLSOptimizer.check_messages: returns the joined conditions when one of
\* them is not None, and None otherwise.
GFLS_check_messages(p, d) ==
    LET r == GFLS_drain(p, <<>>, d)
    IN  [pipe |-> r.pipe, dirs |-> r.dirs, exc |-> r.exc,
         ret  |-> IF r.exc = "None"
                     /\ \E j \in 1 .. Len(r.conds) : r.conds[j] # "None"
                  THEN JoinAnd(r.conds) ELSE "None",
         stopped |-> \E j \in 1 .. Len(r.conds) :
                        r.conds[j] = "Manager Termination"]

\* The bounds and x0 arguments of minimize, two parameters each: a bound
\* is <<min, max>>.
BoundsArgs == [1 .. 2 -> {<<0, 2>>, <<1, 1>>}]
X0Args == [1 .. 2 -> {-1, 1, 3}]

\* The arguments of a run that passes every check of minimize.
GoodBounds == <<<<0, 2>>, <<0, 2>>>>
GoodX0 == <<1, 1>>

\* What function.__wrapped__.resids is: a callable, an attribute that is
\* not callable, or absent (function has no __wrapped__, or __wrapped__
\* has no resids).
ResidsArgs == {"callable", "not callable", "absent"}

Configs ==
    [callbacks : {"None", "callable"}, resids : ResidsArgs,
     bounds : BoundsArgs, x0 : X0Args]

\* What the opening checks of GFLSOptimizer.minimize raise (lines 119-134):
\* function.__wrapped__.resids is evaluated first (AttributeError when it
\* is absent) and tested with callable(), then every bound for min == max,
\* then every
\* coordinate of x0 against its bound.
GFLS_validate_without_x0(c) ==
    IF c.resids = "absent" THEN "AttributeError"
    ELSE IF c.resids = "not callable" THEN "NotImplementedError"
    ELSE IF \E i \in DOMAIN c.bounds : c.bounds[i][1] = c.bounds[i][2]
    THEN "ValueError"
    ELSE "None"

GFLS_validate(c) ==
    IF c.resids = "absent" THEN "AttributeError"
    ELSE IF c.resids = "not callable" THEN "NotImplementedError"
    ELSE IF \E i \in DOMAIN c.bounds : c.bounds[i][1] = c.bounds[i][2]
    THEN "ValueError"
    ELSE IF \E i \in DOMAIN c.x0 :
                c.x0[i] < c.bounds[i][1] \/ c.x0[i] > c.bounds[i][2]
    THEN "ValueError"
    ELSE "None"

\* A worker about to run minimize, attached to its queue, pipe and flag.
WorkerInit ==
    /\ kind \in {"CMA", "GFLS"}
    /\ cfg \in Configs
    /\ kind = "CMA" =>
           /\ cfg.resids = "callable"
           /\ cfg.bounds = GoodBounds /\ cfg.x0 = GoodX0
    /\ kind = "GFLS" => cfg.callbacks = "None"
    /\ pc = "start"
    /\ queue = <<>>
    /\ pipe = <<>>
    /\ outbox = <<>>
    /\ pause = TRUE
    /\ countiter = 0
    /\ has_x = FALSE
    /\ callbackstop = 0
    /\ stopcond = "None"
    /\ dirs = {}
    /\ exc = "None"
    /\ nsent = 0
    /\ nevals = 0
    /\ stopread = -1
    /\ stopblocked = -1
    /\ sinceclear = [packets |-> 0, evals |-> 0]

\* No worker: the state of the worker's variables in the other
\* specifications.
WorkerNone ==
    /\ kind = "none"
    /\ cfg = [callbacks |-> "None", resids |-> "callable",
              bounds |-> GoodBounds, x0 |-> GoodX0]
    /\ pc = "none"
    /\ queue = <<>>
    /\ pipe = <<>>
    /\ outbox = <<>>
    /\ pause = TRUE
    /\ countiter = 0
    /\ has_x = FALSE
    /\ callbackstop = 0
    /\ stopcond = "None"
    /\ dirs = {}
    /\ exc = "None"
    /\ nsent = 0
    /\ nevals = 0
    /\ stopread = -1
    /\ stopblocked = -1
    /\ sinceclear = [packets |-> 0, evals |-> 0]

Running == pc \notin {"done", "crashed", "none"}

\* Ghost bookkeeping of a queue put and of a round of evaluations.
CountPacket ==
    sinceclear' = IF pause THEN sinceclear
                  ELSE [sinceclear EXCEPT !.packets = @ + 1]

CountEvals ==
    sinceclear' = IF pause THEN sinceclear
                  ELSE [sinceclear EXCEPT !.evals = @ + 1]

NoteStop(stopped) ==
    stopread' = IF stopped /\ stopread = -1 THEN Len(queue) ELSE stopread

\* ---- the manager's side

\* The manager sends the stop signal.
SendStop ==
    /\ Running /\ nsent < MaxSignals
    /\ pipe' = Append(pipe, StopSignal)
    /\ nsent' = nsent + 1
    /\ stopblocked' = IF kind = "CMA" /\ pc = "pause" /\ ~pause
                          /\ stopblocked = -1
                       THEN nevals ELSE stopblocked
    /\ UNCHANGED <<kind, cfg, pc, queue, outbox, pause, countiter, has_x,
                   callbackstop, stopcond, dirs, exc, nevals, stopread,
                   sinceclear>>
    /\ UNCHANGED <<treeVars, logVars, managerVars, paramsVars>>

\* The manager sends save_state with a path.
SendSave ==
    /\ Running /\ nsent < MaxSignals
    /\ \E path \in SavePaths : pipe' = Append(pipe, SaveSignal(path))
    /\ nsent' = nsent + 1
    /\ UNCHANGED <<kind, cfg, pc, queue, outbox, pause, countiter, has_x,
                   callbackstop, stopcond, dirs, exc, nevals, stopread,
                   sinceclear>>
    /\ UNCHANGED <<treeVars, logVars, managerVars, paramsVars>>
    /\ UNCHANGED stopblocked

\* A message outside the protocol arrives on the worker's end of the pipe.
SendUnknown ==
    /\ Running /\ nsent < MaxSignals
    /\ \E m \in UnknownSignals : pipe' = Append(pipe, m)
    /\ nsent' = nsent + 1
    /\ UNCHANGED <<kind, cfg, pc, queue, outbox, pause, countiter, has_x,
                   callbackstop, stopcond, dirs, exc, nevals, stopread,
                   sinceclear>>
    /\ UNCHANGED <<treeVars, logVars, managerVars, paramsVars>>
    /\ UNCHANGED stopblocked

\* The manager clears the pause flag.
ClearPause ==
    /\ Running /\ pause
    /\ pause' = FALSE
    /\ sinceclear' = [packets |-> 0, evals |-> 0]
    /\ UNCHANGED <<kind, cfg, pc, queue, pipe, outbox, countiter, has_x,
                   callbackstop, stopcond, dirs, exc, nsent, nevals,
                   stopread>>
    /\ UNCHANGED <<treeVars, logVars, managerVars, paramsVars>>
    /\ UNCHANGED stopblocked

\* The manager sets the pause flag again.
SetPause ==
    /\ Running /\ ~pause
    /\ pause' = TRUE
    /\ sinceclear' = [packets |-> 0, evals |-> 0]
    /\ UNCHANGED <<kind, cfg, pc, queue, pipe, outbox, countiter, has_x,
                   callbackstop, stopcond, dirs, exc, nsent, nevals,
                   stopread>>
    /\ UNCHANGED <<treeVars, logVars, managerVars, paramsVars>>
    /\ UNCHANGED stopblocked

\* ---- CMAOptimizer.minimize

\* The directory CMAOptimizer.minimize keeps its files in (line 94).
CMADir == "cmadata"

\* Lines 86-107: options, the directory cmadata is made unless it exists
\* (lines 94-96), es = CMAEvolutionStrategy(...), x = None.
CMAStart ==
    /\ kind = "CMA" /\ pc = "start"
    /\ dirs' = dirs \cup {CMADir}
    /\ pc' = "loop"
    /\ UNCHANGED <<kind, cfg, queue, pipe, outbox, pause, countiter, has_x,
                   callbackstop, stopcond, exc, nsent, nevals,
                   stopread, sinceclear>>
    /\ UNCHANGED <<treeVars, logVars, managerVars, paramsVars>>
    /\ UNCHANGED stopblocked

\* Line 108: while not es.stop(). es.stop() holds when callbackstop is set
\* or when one of CMA's own criteria is met, which is left open here
\* (natural) and forced after MaxIter iterations. Before the first tell
\* (countiter = 0) cma's stop() reports nothing, so the body runs at least
\* once.
CMALoopTest ==
    /\ kind = "CMA" /\ pc = "loop"
    /\ \E natural \in BOOLEAN :
        /\ countiter = 0 => ~natural
        /\ countiter >= MaxIter => natural
        /\ pc' = IF callbackstop = 1 \/ natural THEN "final_push" ELSE "ask"
    /\ UNCHANGED <<kind, cfg, queue, pipe, outbox, pause, countiter, has_x,
                   callbackstop, stopcond, dirs, exc, nsent, nevals,
                   stopread, sinceclear>>
    /\ UNCHANGED <<treeVars, logVars, managerVars, paramsVars>>
    /\ UNCHANGED stopblocked

\* Line 110: x = es.ask().
CMAAsk ==
    /\ kind = "CMA" /\ pc = "ask"
    /\ has_x' = TRUE
    /\ pc' = "eval"
    /\ UNCHANGED <<kind, cfg, queue, pipe, outbox, pause, countiter,
                   callbackstop, stopcond, dirs, exc, nsent, nevals,
                   stopread, sinceclear>>
    /\ UNCHANGED <<treeVars, logVars, managerVars, paramsVars>>
    /\ UNCHANGED stopblocked

\* Lines 113-117: fx = [function(i) for i in x].
CMAEval ==
    /\ kind = "CMA" /\ pc = "eval"
    /\ nevals' = nevals + 1
    /\ CountEvals
    /\ pc' = "tell"
    /\ UNCHANGED <<kind, cfg, queue, pipe, outbox, pause, countiter, has_x,
                   callbackstop, stopcond, dirs, exc, nsent, stopread>>
    /\ UNCHANGED <<treeVars, logVars, managerVars, paramsVars>>
    /\ UNCHANGED stopblocked

\* Lines 119-124 followed at once by line 128, the result not being put.
CMATellThenPoll ==
    /\ kind = "CMA" /\ pc = "tell"
    /\ countiter' = countiter + 1
    /\ pc' = "check"
    /\ UNCHANGED <<kind, cfg, queue, pipe, outbox, pause, has_x,
                   callbackstop, stopcond, dirs, exc, nsent, nevals,
                   stopread, sinceclear>>
    /\ UNCHANGED <<treeVars, logVars, managerVars, paramsVars>>
    /\ UNCHANGED stopblocked

\* Lines 119-124: es.tell(x, fx), which counts the iteration.
CMATell ==
    /\ kind = "CMA" /\ pc = "tell"
    /\ countiter' = countiter + 1
    /\ pc' = "push"
    /\ UNCHANGED <<kind, cfg, queue, pipe, outbox, pause, has_x,
                   callbackstop, stopcond, dirs, exc, nsent, nevals,
                   stopread, sinceclear>>
    /\ UNCHANGED <<treeVars, logVars, managerVars, paramsVars>>
    /\ UNCHANGED stopblocked

\* Line 126: push_iter_result(es.countiter, len(x), x, fx, False).
CMAPush ==
    /\ kind = "CMA" /\ pc = "push"
    /\ queue' = Append(queue, IterationResult(countiter, FALSE))
    /\ CountPacket
    /\ pc' = "check"
    /\ UNCHANGED <<kind, cfg, pipe, outbox, pause, countiter, has_x,
                   callbackstop, stopcond, dirs, exc, nsent, nevals,
                   stopread>>
    /\ UNCHANGED <<treeVars, logVars, managerVars, paramsVars>>
    /\ UNCHANGED stopblocked

\* Line 128: self.check_messages().
CMACheck ==
    /\ kind = "CMA" /\ pc = "check"
    /\ LET r == CMA_check_messages(pipe, callbackstop)
       IN  /\ pipe' = r.pipe
           /\ callbackstop' = r.callbackstop
           /\ exc' = r.exc
           /\ NoteStop(r.stopped)
           /\ pc' = IF r.exc = "None" THEN "pause" ELSE "crashed"
    /\ UNCHANGED <<kind, cfg, queue, outbox, pause, countiter, has_x,
                   stopcond, dirs, nsent, nevals, sinceclear>>
    /\ UNCHANGED <<treeVars, logVars, managerVars, paramsVars>>
    /\ UNCHANGED stopblocked

\* Line 130: self._pause_signal.wait() returns once the flag is set.
CMAPause ==
    /\ kind = "CMA" /\ pc = "pause"
    /\ pause
    /\ pc' = "custom"
    /\ UNCHANGED <<kind, cfg, queue, pipe, outbox, pause, countiter, has_x,
                   callbackstop, stopcond, dirs, exc, nsent, nevals,
                   stopread, sinceclear>>
    /\ UNCHANGED <<treeVars, logVars, managerVars, paramsVars>>
    /\ UNCHANGED stopblocked

\* Line 132: _customtermination() calls callstop on stagnation or when
\* sigma falls below minsigma (left open here).
CMACustom ==
    /\ kind = "CMA" /\ pc = "custom"
    /\ \E stop \in BOOLEAN :
        callbackstop' = IF stop THEN 1 ELSE callbackstop
    /\ pc' = "callbacks"
    /\ UNCHANGED <<kind, cfg, queue, pipe, outbox, pause, countiter, has_x,
                   stopcond, dirs, exc, nsent, nevals, stopread, sinceclear>>
    /\ UNCHANGED <<treeVars, logVars, managerVars, paramsVars>>
    /\ UNCHANGED stopblocked

\* Lines 133-134: if callbacks(): self.callstop(...). Calling the default
\* callbacks=None raises TypeError.
CMACallbacks ==
    /\ kind = "CMA" /\ pc = "callbacks"
    /\ IF cfg.callbacks = "None"
       THEN /\ exc' = "TypeError"
            /\ pc' = "crashed"
            /\ UNCHANGED callbackstop
       ELSE /\ \E stop \in BOOLEAN :
                callbackstop' = IF stop THEN 1 ELSE callbackstop
            /\ pc' = "loop"
            /\ UNCHANGED exc
    /\ UNCHANGED <<kind, cfg, queue, pipe, outbox, pause, countiter, has_x,
                   stopcond, dirs, nsent, nevals, stopread, sinceclear>>
    /\ UNCHANGED <<treeVars, logVars, managerVars, paramsVars>>
    /\ UNCHANGED stopblocked

\* The push after the loop, the packet not marked final.
CMAFinalPushUnmarked ==
    /\ kind = "CMA" /\ pc = "final_push"
    /\ IF has_x
       THEN /\ queue' = Append(queue, IterationResult(countiter, FALSE))
            /\ CountPacket
            /\ pc' = "message"
            /\ UNCHANGED exc
       ELSE /\ exc' = "TypeError"
            /\ pc' = "crashed"
            /\ UNCHANGED <<queue, sinceclear>>
    /\ UNCHANGED <<kind, cfg, pipe, outbox, pause, countiter, has_x,
                   callbackstop, stopcond, dirs, nsent, nevals, stopread>>
    /\ UNCHANGED <<treeVars, logVars, managerVars, paramsVars>>
    /\ UNCHANGED stopblocked

\* Lines 137-143: after the loop, push_iter_result(es.countiter, len(x),
\* x, fx, True); len(x) would raise TypeError were x still None.
CMAFinalPush ==
    /\ kind = "CMA" /\ pc = "final_push"
    /\ IF has_x
       THEN /\ queue' = Append(queue, IterationResult(countiter, TRUE))
            /\ CountPacket
            /\ pc' = "message"
            /\ UNCHANGED exc
       ELSE /\ exc' = "TypeError"
            /\ pc' = "crashed"
            /\ UNCHANGED <<queue, sinceclear>>
    /\ UNCHANGED <<kind, cfg, pipe, outbox, pause, countiter, has_x,
                   callbackstop, stopcond, dirs, nsent, nevals, stopread>>
    /\ UNCHANGED <<treeVars, logVars, managerVars, paramsVars>>
    /\ UNCHANGED stopblocked

\* Line 145: self.message_manager(0, "Optimizer convergence").
CMAMessage ==
    /\ kind = "CMA" /\ pc = "message"
    /\ outbox' = Append(outbox, <<0, "Optimizer convergence">>)
    /\ pc' = "final_check"
    /\ UNCHANGED <<kind, cfg, queue, pipe, pause, countiter, has_x,
                   callbackstop, stopcond, dirs, exc, nsent, nevals,
                   stopread, sinceclear>>
    /\ UNCHANGED <<treeVars, logVars, managerVars, paramsVars>>
    /\ UNCHANGED stopblocked

\* Lines 147-153: the final check_messages(), then the results are pickled
\* and minimize returns.
CMAFinalCheck ==
    /\ kind = "CMA" /\ pc = "final_check"
    /\ LET r == CMA_check_messages(pipe, callbackstop)
       IN  /\ pipe' = r.pipe
           /\ callbackstop' = r.callbackstop
           /\ exc' = r.exc
           /\ NoteStop(r.stopped)
           /\ pc' = IF r.exc = "None" THEN "done" ELSE "crashed"
    /\ UNCHANGED <<kind, cfg, queue, outbox, pause, countiter, has_x,
                   stopcond, dirs, nsent, nevals, sinceclear>>
    /\ UNCHANGED <<treeVars, logVars, managerVars, paramsVars>>
    /\ UNCHANGED stopblocked

\* ---- GFLSOptimizer.minimize

\* Lines 119-155: the function, the bounds and x0 are validated, the GloMPO
\* callbacks are put in front of the callback list, the driver is entered.
GFLSStart ==
    /\ kind = "GFLS" /\ pc = "start"
    /\ IF GFLS_validate(cfg) = "None"
       THEN pc' = "iterate" /\ UNCHANGED exc
       ELSE pc' = "crashed" /\ exc' = GFLS_validate(cfg)
    /\ UNCHANGED <<kind, cfg, queue, pipe, outbox, pause, countiter, has_x,
                   callbackstop, stopcond, dirs, nsent, nevals, stopread,
                   sinceclear>>
    /\ UNCHANGED <<treeVars, logVars, managerVars, paramsVars>>
    /\ UNCHANGED stopblocked

\* One iteration of optsam's driver (described at lines 110-114): the
\* algorithm evaluates the residuals and the driver sets stopcond, None to
\* carry on or one of its own conditions (tmax, imax, fmax, xtol, tr_min),
\* which is left open here and forced after MaxIter iterations.
GFLSIterate ==
    /\ kind = "GFLS" /\ pc = "iterate"
    /\ countiter' = countiter + 1
    /\ nevals' = nevals + 1
    /\ CountEvals
    /\ \E natural \in BOOLEAN :
        /\ countiter + 1 >= MaxIter => natural
        /\ stopcond' = IF natural THEN "imax" ELSE "None"
    /\ pc' = "cb_push"
    /\ UNCHANGED <<kind, cfg, queue, pipe, outbox, pause, has_x,
                   callbackstop, dirs, exc, nsent, stopread>>
    /\ UNCHANGED <<treeVars, logVars, managerVars, paramsVars>>
    /\ UNCHANGED stopblocked

\* The first callback, push_iter_result (lines 179-184): final is set when
\* stopcond is not None.
GFLSPush ==
    /\ kind = "GFLS" /\ pc = "cb_push"
    /\ queue' = Append(queue, IterationResult(countiter, stopcond # "None"))
    /\ CountPacket
    /\ pc' = "cb_check"
    /\ UNCHANGED <<kind, cfg, pipe, outbox, pause, countiter, has_x,
                   callbackstop, stopcond, dirs, exc, nsent, nevals,
                   stopread>>
    /\ UNCHANGED <<treeVars, logVars, managerVars, paramsVars>>
    /\ UNCHANGED stopblocked

\* The second callback, check_messages (lines 186-201); what it returns,
\* unless None, becomes the driver's stopcond.
GFLSCheck ==
    /\ kind = "GFLS" /\ pc = "cb_check"
    /\ LET r == GFLS_check_messages(pipe, dirs)
       IN  /\ pipe' = r.pipe
           /\ dirs' = r.dirs
           /\ exc' = r.exc
           /\ stopcond' = IF r.ret # "None" THEN r.ret ELSE stopcond
           /\ NoteStop(r.stopped)
           /\ pc' = IF r.exc = "None" THEN "loop_test" ELSE "crashed"
    /\ UNCHANGED <<kind, cfg, queue, outbox, pause, countiter, has_x,
                   callbackstop, nsent, nevals, sinceclear>>
    /\ UNCHANGED <<treeVars, logVars, managerVars, paramsVars>>
    /\ UNCHANGED stopblocked

\* The driver carries on while stopcond is None.
GFLSLoopTest ==
    /\ kind = "GFLS" /\ pc = "loop_test"
    /\ pc' = IF stopcond = "None" THEN "iterate" ELSE "post"
    /\ UNCHANGED <<kind, cfg, queue, pipe, outbox, pause, countiter, has_x,
                   callbackstop, stopcond, dirs, exc, nsent, nevals,
                   stopread, sinceclear>>
    /\ UNCHANGED <<treeVars, logVars, managerVars, paramsVars>>
    /\ UNCHANGED stopblocked

\* Lines 156-177: the result is read from the driver's logger and
\* message_manager(0) tells the manager that the worker ends.
GFLSPost ==
    /\ kind = "GFLS" /\ pc = "post"
    /\ outbox' = Append(outbox, <<0, "None">>)
    /\ pc' = "done"
    /\ UNCHANGED <<kind, cfg, queue, pipe, pause, countiter, has_x,
                   callbackstop, stopcond, dirs, exc, nsent, nevals,
                   stopread, sinceclear>>
    /\ UNCHANGED <<treeVars, logVars, managerVars, paramsVars>>
    /\ UNCHANGED stopblocked

\* ------------------------------------------------------------------------
\* The manager's slot budget (spec section 4.5; the manager's code is not
\* among the sources)
\* ------------------------------------------------------------------------

\* OptimizerPackage.slots / ProcessPackage.slots of a worker: at least 1.
Slots == 1 .. 2

\* WorkerState
Occupying == {"RUNNING", "PAUSED"}
Terminal == {"KILLED", "CONVERGED", "CRASHED"}

RECURSIVE SumSlots(_, _)
\* The sum of slots(h) over the handles ids of hs.
SumSlots(hs, ids) ==
    IF ids = {} THEN 0
    ELSE LET o == CHOOSE o \in ids : TRUE
         IN  hs[o].slots + SumSlots(hs, ids \ {o})

\* A mutant of free_slots: paused workers are not counted.
free_slots_running_only(hs, jobs) ==
    jobs - SumSlots(hs, {o \in DOMAIN hs : hs[o].state = "RUNNING"})

\* Budget accounting: free_slots = max_jobs - sum of slots(h) over the
\* handles in RUNNING or PAUSED.
free_slots(hs, jobs) ==
    jobs - SumSlots(hs, {o \in DOMAIN hs : hs[o].state \in Occupying})

\* Initialize: empty handle set.
ManagerInit ==
    /\ max_jobs \in 1 .. MaxJobs
    /\ handles = <<>>

\* No manager: the state of its variables in the other specifications.
ManagerNone ==
    /\ max_jobs = 1
    /\ handles = <<>>

\* Fill-up: while free_slots >= next-package.slots, the selector's
\* package is spawned and its handle inserted as RUNNING.
FillUp ==
    /\ Len(handles) < MaxWorkers
    /\ \E slots \in Slots :
        /\ free_slots(handles, max_jobs) >= slots
        /\ handles' = Append(handles, [state |-> "RUNNING", slots |-> slots])
    /\ UNCHANGED max_jobs
    /\ UNCHANGED <<treeVars, logVars, workerVars, paramsVars>>

\* Pause policy: the manager pauses a RUNNING worker by clearing its flag.
PauseWorker ==
    /\ \E o \in DOMAIN handles :
        /\ handles[o].state = "RUNNING"
        /\ handles' = [handles EXCEPT ![o].state = "PAUSED"]
    /\ UNCHANGED max_jobs
    /\ UNCHANGED <<treeVars, logVars, workerVars, paramsVars>>

\* The flag is set again: PAUSED -> RUNNING.
ResumeWorker ==
    /\ \E o \in DOMAIN handles :
        /\ handles[o].state = "PAUSED"
        /\ handles' = [handles EXCEPT ![o].state = "RUNNING"]
    /\ UNCHANGED max_jobs
    /\ UNCHANGED <<treeVars, logVars, workerVars, paramsVars>>

\* Drain, hunt and convergence check: a worker whose final packet arrived
\* becomes CONVERGED or CRASHED, a hunted one KILLED, one that did not
\* answer the stop signal in time CRASHED.
EndWorker ==
    /\ \E o \in DOMAIN handles, st \in Terminal :
        /\ handles[o].state \in Occupying
        /\ handles' = [handles EXCEPT ![o].state = st]
    /\ UNCHANGED max_jobs
    /\ UNCHANGED <<treeVars, logVars, workerVars, paramsVars>>

\* Reaping: the worker is joined.
ReapWorker ==
    /\ \E o \in DOMAIN handles :
        /\ handles[o].state \in Terminal
        /\ handles' = [handles EXCEPT ![o].state = "REAPED"]
    /\ UNCHANGED max_jobs
    /\ UNCHANGED <<treeVars, logVars, workerVars, paramsVars>>

\* ------------------------------------------------------------------------
\* Specifications
\* ------------------------------------------------------------------------

\* The predicate tree alone: a tree is built, then evaluated and reset.
InitTree == TreeInit /\ LogInit /\ WorkerNone /\ ManagerNone /\ ParamsNone

NextTree == TreeCall \/ TreeReset \/ TreeIter \/ TreeCombine

SpecTree == InitTree /\ [][NextTree]_vars

\* The log alone; the tree is the single storing leaf, never evaluated.
InitLog ==
    /\ LogInit /\ TreeInit /\ root = Leaf(1, TRUE)
    /\ WorkerNone /\ ManagerNone /\ ParamsNone

NextLog ==
    \/ AddOptimizer \/ PutIteration \/ PutMetadata \/ PutMessage
    \/ GetHistory \/ SaveSummary \/ SaveOptimizer

SpecLog == InitLog /\ [][NextLog]_vars

\* A hunter evaluated on a log that optimizers are added to and that
\* receives the iterations of optimizer 1.
InitHunt == InitLog

NextHunt == AddOptimizer \/ HuntPut \/ HuntCall

SpecHunt == InitHunt /\ [][NextHunt]_vars

\* One worker, CMA or GFLS, run by minimize next to the manager's end of
\* its pipe and flag.
InitWorker ==
    /\ WorkerInit /\ TreeInit /\ root = Leaf(1, TRUE)
    /\ LogInit /\ ManagerNone /\ ParamsNone

NextWorker ==
    \/ SendStop \/ SendSave \/ SendUnknown \/ ClearPause \/ SetPause
    \/ CMAStart \/ CMALoopTest \/ CMAAsk \/ CMAEval \/ CMATell \/ CMAPush
    \/ CMACheck \/ CMAPause \/ CMACustom \/ CMACallbacks \/ CMAFinalPush
    \/ CMAMessage \/ CMAFinalCheck
    \/ GFLSStart \/ GFLSIterate \/ GFLSPush \/ GFLSCheck \/ GFLSLoopTest
    \/ GFLSPost

SpecWorker == InitWorker /\ [][NextWorker]_vars

\* The manager's handle set over a run.
InitManager ==
    /\ ManagerInit /\ TreeInit /\ root = Leaf(1, TRUE)
    /\ LogInit /\ WorkerNone /\ ParamsNone

NextManager ==
    FillUp \/ PauseWorker \/ ResumeWorker \/ EndWorker \/ ReapWorker

SpecManager == InitManager /\ [][NextManager]_vars

\* One call of _setup_collections_from_params on any folder.
InitParams ==
    /\ ParamsInit /\ TreeInit /\ root = Leaf(1, TRUE)
    /\ LogInit /\ WorkerNone /\ ManagerNone

NextParams == SetupCollections

SpecParams == InitParams /\ [][NextParams]_vars

\* ------------------------------------------------------------------------
\* Claims about the predicate tree
\* ------------------------------------------------------------------------

\* Whether node n took part in the last top-level evaluation, and with what
\* result. Every node below the root is cleared at the start of a call, so
\* a combination node below an evaluated one holds a result only if it ran.
Evaluated(n) ==
    IF IsCombi(n) THEN n.last_result # "None" ELSE n.id \in invoked

Result(n) == IF IsCombi(n) THEN n.last_result = "True" ELSE args[n.id]

IsExampleTree(t) ==
    /\ t.kind = "or" /\ t.base1.kind = "leaf" /\ t.base2.kind = "and"
    /\ t.base2.base1.kind = "leaf" /\ t.base2.base2.kind = "leaf"

\* C1 (as stated): after one top-level evaluation of any tree every leaf has
\* been invoked, whatever the first operand of a node returned, and every
\* leaf (of a class that stores its result) has a last_result that is not
\* None.
C1_BothOperandsAlways ==
    lastop = "call" =>
        \A n \in Nodes(root) :
            ~IsCombi(n) =>
                /\ n.id \in invoked
                /\ n.stores => n.last_result # "None"

\* C1 (amended): evaluation is lazy. The root is evaluated; an evaluated
\* node always evaluates its first operand, and its second operand exactly
\* when the first did not decide the result (an Or whose first operand was
\* false, an And whose first operand was true); nothing below a skipped
\* node is evaluated. A leaf that was not invoked has last_result None, and
\* an invoked leaf that stores its result holds the value it returned.
C1_LazyOperands ==
    lastop = "call" =>
        /\ Evaluated(root)
        /\ \A n \in Nodes(root) :
            IF IsCombi(n)
            THEN IF Evaluated(n)
                 THEN /\ Evaluated(n.base1)
                      /\ Evaluated(n.base2) <=>
                            (Result(n.base1) = (n.kind = "and"))
                 ELSE ~Evaluated(n.base1) /\ ~Evaluated(n.base2)
            ELSE /\ n.id \notin invoked => n.last_result = "None"
                 /\ (n.id \in invoked /\ n.stores) =>
                        n.last_result = PyBool(args[n.id])

\* C1 witness: FalseHunter() | (TrueHunter() & TrueHunter()) evaluated once:
\* all three leaves ran, hold their results, and the value is True.
C1_Witness ==
    /\ lastop = "call"
    /\ IsExampleTree(root)
    /\ args = <<FALSE, TRUE, TRUE>>
    /\ invoked = {1, 2, 3}
    /\ \A n \in Nodes(root) : n.last_result # "None"
    /\ ret = "True"

\* C2 (as stated): after reset() on the root of a tree that has been
\* evaluated, last_result is None on every node, the root included.
C2_ResetClearsEveryNode ==
    (lastop = "reset" /\ evaluated) =>
        \A n \in Nodes(root) : n.last_result = "None"

\* ------------------------------------------------------------------------
\* Claims about the optimizer log
\* ------------------------------------------------------------------------

NonIncreasing(q) == \A j \in 1 .. (Len(q) - 1) : q[j] >= q[j + 1]

StrictlyIncreasing(q) == \A j \in 1 .. (Len(q) - 1) : q[j] < q[j + 1]

IsPut(c) == c.op \in {"put_iteration", "put_metadata", "put_message"}

\* C3 (as stated): for every opt_id, after any sequence of put_iteration
\* calls (repeated and earlier iteration numbers included), the series
\* get_history(opt_id, 'fx_best') is non-increasing.
C3_FxBestNonIncreasing ==
    \A o \in DOMAIN storage :
        NonIncreasing(get_history(storage, o, "fx_best"))

\* C4 (as stated): a put_iteration whose iteration number is not greater
\* than the last one accepted is discarded, so the stored history of every
\* opt_id keeps strictly increasing iteration numbers.
C4_OutOfOrderRejected ==
    \A o \in DOMAIN storage :
        StrictlyIncreasing(storage[o].history.keys)

\* C5 (as stated): once the final iteration of an opt_id has been appended,
\* every further put_iteration for it is rejected and leaves its history
\* unchanged.
C5_NoAppendAfterFinal ==
    [][(lastcall'.op = "put_iteration" /\ lastcall'.opt_id \in finals) =>
            /\ err' # "ok"
            /\ storage'[lastcall'.opt_id].history
                   = storage[lastcall'.opt_id].history]_vars

\* C6 (as stated): add_optimizer with an opt_id already in the log fails
\* and leaves the existing stream (history, metadata, messages, running
\* best) unchanged.
C6_DuplicateAddFails ==
    [][(lastcall'.op = "add_optimizer"
            /\ lastcall'.opt_id \in DOMAIN storage) =>
            /\ err' # "ok"
            /\ storage' = storage]_vars

\* C7: put_iteration, put_metadata and put_message for an opt_id that is
\* not in the log fail with an error (KeyError); no stream is created and
\* no stream of the log changes.
C7_UnknownOptIdFails ==
    [][(IsPut(lastcall') /\ lastcall'.opt_id \notin DOMAIN storage) =>
            /\ err' = "KeyError"
            /\ storage' = storage]_vars

\* C7 witness: a put_iteration for an opt_id that was never added has just
\* failed while another optimizer's stream holds an iteration.
C7_Witness ==
    /\ lastcall.op = "put_iteration"
    /\ lastcall.opt_id \notin added
    /\ err = "KeyError"
    /\ \E o \in DOMAIN storage : Len(storage[o].history.keys) > 0

\* C8 (as stated): len(log) is the total number of iterations held by all
\* optimizers of the log.
C8_LenCountsIterations ==
    __len__(storage) = len_iterations(storage)

\* C8 (amended): len(log) is the number of optimizers of the log, that is
\* of distinct opt_ids add_optimizer has been called with, whatever
\* iterations were put.
C8_LenCountsOptimizers ==
    __len__(storage) = Cardinality(added)

\* C8 witness: two optimizers, one of them holding two iterations.
C8_Witness ==
    /\ Cardinality(added) = 2
    /\ \E o \in DOMAIN storage : Len(storage[o].history.keys) = 2
    /\ __len__(storage) = 2

\* ------------------------------------------------------------------------
\* Claims about the workers
\* ------------------------------------------------------------------------

\* C9 (as stated): a worker that has read the stop signal emits exactly one
\* further packet, that packet has final=true and is its last, and the
\* worker then leaves its loop: no second packet follows the signal, the
\* one that follows is final, and minimize does not return without it.
C9_StopThenOneFinalPacket ==
    stopread # -1 =>
        /\ Len(queue) <= stopread + 1
        /\ Len(queue) = stopread + 1 => queue[Len(queue)].final
        /\ pc = "done" => Len(queue) = stopread + 1

\* C10 (as stated): while the pause flag is cleared a worker blocks at its
\* next iteration boundary: after the flag was cleared it makes at most the
\* evaluations and the packet of the iteration it was in.
C10_PauseRespected ==
    ~pause => (sinceclear.packets <= 1 /\ sinceclear.evals <= 1)

\* The n_iter of the packets on the queue, in the order they were put.
QueueIters == [j \in 1 .. Len(queue) |-> queue[j].n_iter]

FinalPackets == {j \in 1 .. Len(queue) : queue[j].final}

\* C11 (as stated): the packets of one worker carry strictly increasing
\* n_iter, the last packet marked final included.
C11_StrictlyIncreasingIters ==
    StrictlyIncreasing(QueueIters)

\* C12: a run of CMAOptimizer.minimize that leaves its loop on the stop
\* condition, after any number of iterations (a run of zero iterations,
\* were there one, included), puts
\* exactly one final packet, after every other packet, and sends the end
\* message to the manager after it: the final push does not fail, once it
\* is made the queue holds one final packet, the last, and the end message
\* is in the outbox only behind it.
C12_OneFinalPacketThenMessage ==
    kind = "CMA" =>
        /\ ~(pc = "crashed" /\ ~has_x)
        /\ pc \in {"message", "final_check", "done"} =>
               FinalPackets = {Len(queue)}
        /\ pc \in {"final_check", "done"} =>
               outbox = <<(<<0, "Optimizer convergence">>)>>
        /\ outbox # <<>> => FinalPackets # {}

\* A CMA run of two iterations has returned: two packets not marked final,
\* then the final one, and the end message in the outbox.
C12_Witness ==
    /\ kind = "CMA" /\ pc = "done"
    /\ countiter = 2 /\ Len(queue) = 3
    /\ FinalPackets = {3}
    /\ outbox = <<(<<0, "Optimizer convergence">>)>>

\* The message whose handling ended a check_messages call that did not
\* empty the pipe.
LastRead == pipe[Len(pipe) - Len(pipe')]

\* C13 (as stated): handling save_state never ends or crashes the worker,
\* a second save_state for the same directory included: no check_messages
\* call stops at a save_state message with an exception.
C13_SaveStateNeverCrashes ==
    [][(Len(pipe') < Len(pipe) /\ pc' = "crashed") => LastRead.code # 1]_vars

\* C14 (as stated): a message GFLSOptimizer.check_messages does not
\* recognise is ignored: the call raises what it would raise, leaves in
\* the pipe what it would leave and yields the stop condition it would
\* yield had the unknown messages not been sent.
C14_UnknownMessageIgnored ==
    [][(kind = "GFLS" /\ pc = "cb_check" /\ pc' # pc
            /\ \E j \in 1 .. Len(pipe) : ~Known(pipe[j]))
        => LET r == GFLS_check_messages(SelectSeq(pipe, Known), dirs)
           IN  /\ exc' = r.exc
               /\ SelectSeq(pipe', Known) = r.pipe
               /\ stopcond' = IF r.ret # "None" THEN r.ret ELSE stopcond]_vars

\* ------------------------------------------------------------------------
\* Further claims about the predicate tree
\* ------------------------------------------------------------------------

RECURSIVE Value(_, _)
\* The boolean value of the expression a tree was written as, over the
\* leaves' results a.
Value(t, a) ==
    CASE t.kind = "or"  -> Value(t.base1, a) \/ Value(t.base2, a)
      [] t.kind = "and" -> Value(t.base1, a) /\ Value(t.base2, a)
      [] OTHER          -> a[t.id]

\* C15: the value an evaluation returns is the boolean value of the
\* expression over the leaves' results, & being conjunction and |
\* disjunction.
C15_ValueIsBooleanExpression ==
    lastop = "call" => ret = PyBool(Value(root, args))

\* C15 witness: F | F & T | T & (T | F) has been evaluated to True.
C15_Witness ==
    /\ lastop = "call"
    /\ lastrun.before = KillCondition
    /\ args = KillConditionArgs
    /\ ret = "True"

Leaves(t) == {n \in Nodes(t) : ~IsCombi(n)}

\* Where leaf x stands in the sequence q.
Pos(q, x) == CHOOSE j \in 1 .. Len(q) : q[j] = x

\* C16: iterating a tree yields exactly its leaves, each once, the leaves
\* of every node's first operand before those of its second; a single
\* leaf yields itself.
C16_IterYieldsLeavesInOrder ==
    lastop = "iter" =>
        LET q == lastrun.listed
        IN  /\ {q[j] : j \in 1 .. Len(q)} = Leaves(root)
            /\ Len(q) = Cardinality(Leaves(root))
            /\ \A n \in Nodes(root) :
                IsCombi(n) =>
                    \A x \in Leaves(n.base1), y \in Leaves(n.base2) :
                        Pos(q, x) < Pos(q, y)
            /\ ~IsCombi(root) => q = <<root>>

\* C16 witness: the six leaves of the nested test_kill_condition tree have
\* been listed, first to last.
C16_Witness ==
    /\ lastop = "iter"
    /\ lastrun.before = KillCondition
    /\ [j \in 1 .. Len(lastrun.listed) |-> lastrun.listed[j].id]
           = <<1, 2, 3, 4, 5, 6>>

RECURSIVE Reached(_, _)
\* The nodes of t an evaluation with the leaves' results a comes to: t, its
\* first operand's, and its second operand's unless the first decides.
Reached(t, a) ==
    IF ~IsCombi(t) THEN {t}
    ELSE {t} \cup Reached(t.base1, a)
             \cup (IF Value(t.base1, a) = (t.kind = "or") THEN {}
                   ELSE Reached(t.base2, a))

\* C17: after every top-level evaluation, the first or a later one of the
\* same tree, each node's last_result is None or the value the node
\* produced in this evaluation; a node this evaluation did not come to
\* shows None.
C17_NoStaleResult ==
    lastop = "call" =>
        \A n \in Nodes(root) :
            \/ n.last_result = "None"
            \/ /\ n \in Reached(root, args)
               /\ n.last_result = PyBool(Value(n, args))

\* C17 witness: a leaf that held a result before this evaluation was not
\* evaluated this time and shows None.
C17_Witness ==
    /\ lastop = "call"
    /\ \E n \in Leaves(root), m \in Leaves(lastrun.before) :
        /\ m.id = n.id
        /\ m.last_result # "None"
        /\ n.id \notin invoked
        /\ n.last_result = "None"

\* C18: building a combination fails with TypeError, and builds nothing,
\* when one of the operands is no predicate; on two predicates | builds an
\* Or node and & an And node over exactly these operands, whatever their
\* nesting.
C18_CombineChecksOperands ==
    lastop = "combine" =>
        IF ~IsCoreBase(lastrun.base1) \/ ~IsCoreBase(lastrun.base2)
        THEN /\ lastrun.exc = "TypeError"
             /\ root = lastrun.before
        ELSE /\ lastrun.exc = "None"
             /\ root.kind = lastrun.op
             /\ root.base1 = lastrun.base1
             /\ root.base2 = lastrun.base2

\* C18 witness: the tree is an And node over a nested operand, and its
\* combination with an object that is no predicate has just failed.
C18_Witness ==
    /\ lastop = "combine"
    /\ lastrun.exc = "TypeError"
    /\ lastrun.base2 = NotAPredicate
    /\ root.kind = "and"
    /\ IsCombi(root.base2)

\* ------------------------------------------------------------------------
\* Claims about the hunters
\* ------------------------------------------------------------------------

\* What C19 says PseudoConverged(calls, tol) answers for a victim: True
\* exactly when the victim used more than calls evaluations and the best
\* value at the most recent earlier iteration lying at least calls
\* evaluations back is within the tolerance of the latest best value.
ClaimedPseudoConverged(st, calls, tolpct, victim) ==
    LET known  == victim \in DOMAIN st
        vals   == IF known THEN get_history(st, victim, "fx_best") ELSE <<>>
        fcalls == IF known THEN get_history(st, victim, "f_call_opt")
                  ELSE <<>>
        n      == Len(fcalls)
        used   == IF n = 0 THEN 0 ELSE fcalls[n]
        J      == {j \in 1 .. (n - 1) : fcalls[n] - fcalls[j] >= calls}
    IN  /\ used > calls
        /\ J # {}
        /\ LET j == CHOOSE k \in J : \A l \in J : l <= k
           IN  WithinTol(vals[n], vals[j], tolpct)

\* C19 (as stated): PseudoConverged(calls, tol) returns True exactly in the
\* case the claim describes and returns False in every other case.
C19_PseudoConvergedAsClaimed ==
    lastcall.op = "PseudoConverged" =>
        /\ err = "ok"
        /\ lastcall.ret = PyBool(ClaimedPseudoConverged(storage,
                              lastcall.calls, lastcall.tolpct,
                              lastcall.opt_id))

\* ------------------------------------------------------------------------
\* Claims about the manager
\* ------------------------------------------------------------------------

\* C20: at every moment the slots of the workers that are RUNNING or PAUSED
\* sum to at most max_jobs; a paused worker keeps its slots.
C20_SlotsWithinMaxJobs ==
    SumSlots(handles, {o \in DOMAIN handles : handles[o].state \in Occupying})
        <= max_jobs

\* C20 witness: a paused worker and a running one fill max_jobs together,
\* after an earlier worker has ended.
C20_Witness ==
    /\ \E o \in DOMAIN handles : handles[o].state = "PAUSED"
    /\ \E o \in DOMAIN handles : handles[o].state = "RUNNING"
    /\ \E o \in DOMAIN handles : handles[o].state = "REAPED"
    /\ free_slots(handles, max_jobs) = 0

\* ------------------------------------------------------------------------
\* Further claims about the optimizer log
\* ------------------------------------------------------------------------

\* C21 (as stated): what get_history returned, for a named track and for
\* track=None alike, is a snapshot: calls made on the log after the read
\* do not change the value the reader holds.
C21_ReadIsSnapshot ==
    reader.track # "none" => reader.now = reader.atread

\* The smallest fx among the first n appends of q.
MinFx(q, n) == CHOOSE v \in {q[j].fx : j \in 1 .. n} :
                   \A j \in 1 .. n : v <= q[j].fx

\* C26 (as stated): every stored entry e of a stream, written by the n-th
\* append to it, has fx_best the smallest fx of the first n appends,
\* i_best the iteration number of the earliest of them attaining it, and
\* the stored entry numbered i_best has that fx.
C26_BestTracksMinimum ==
    \A o \in DOMAIN storage :
        LET q  == appends[o]
            at == storage[o].history.at
        IN  \A k \in DOMAIN at :
                LET n == CHOOSE j \in 1 .. Len(q) :
                             /\ q[j].i = k
                             /\ \A l \in (j + 1) .. Len(q) : q[l].i # k
                    m == MinFx(q, n)
                    f == CHOOSE j \in 1 .. n :
                             /\ q[j].fx = m
                             /\ \A l \in 1 .. (j - 1) : q[l].fx # m
                IN  /\ at[k].fx_best = m
                    /\ at[k].i_best = q[f].i
                    /\ at[k].i_best \in DOMAIN at
                    /\ at[at[k].i_best].fx = at[k].fx_best

\* C28: put_iteration, put_metadata and put_message for one opt_id leave
\* the stream (history, metadata, messages, running best) of every other
\* opt_id as it was.
C28_StreamsIndependent ==
    [][IsPut(lastcall') =>
          \A p \in DOMAIN storage \ {lastcall'.opt_id} :
              /\ p \in DOMAIN storage'
              /\ storage'[p] = storage[p]]_vars

\* C28 witness: an iteration has just been put for one optimizer while the
\* other optimizer's stream holds an iteration of its own.
C28_Witness ==
    /\ lastcall.op = "put_iteration"
    /\ err = "ok"
    /\ \E p \in DOMAIN storage \ {lastcall.opt_id} :
        /\ Len(storage[p].history.keys) = 1
        /\ Len(storage[lastcall.opt_id].history.keys) = 1

\* C22 (as stated): save_summary succeeds for any log contents and writes
\* one entry per optimizer: with iterations, whatever their numbers, f_best
\* is the smallest fx logged, x_best the x of the iteration that attained
\* it and f_calls the f_call_opt of the last iteration; without
\* iterations x_best and f_calls are None.
C22_SummaryForAnyLog ==
    lastcall.op = "save_summary" =>
        /\ err = "ok"
        /\ DOMAIN lastcall.sum_data = DOMAIN storage
        /\ \A o \in DOMAIN storage :
            LET q == appends[o]
                e == lastcall.sum_data[o]
            IN  IF q = <<>>
                THEN e.x_best = PyNone /\ e.f_calls = PyNone
                ELSE /\ e.f_best = Val(MinFx(q, Len(q)))
                     /\ \E j \in 1 .. Len(q) :
                            Val(q[j].fx) = e.f_best /\ Val(q[j].x) = e.x_best
                     /\ e.f_calls = Val(q[Len(q)].f_call_opt)

\* C23 (as stated): save_optimizer with an opt_id of the log, 0 included,
\* writes exactly one file, for that optimizer, under the given name; with
\* no opt_id it writes every optimizer, one file each, into the directory
\* name.
C23_SaveOneOrAll ==
    lastcall.op = "save_optimizer" =>
        /\ (lastcall.opt_id # PyNone
                /\ lastcall.opt_id.val \in DOMAIN storage) =>
               /\ err = "ok"
               /\ lastcall.files = {[path |-> lastcall.name \o ".yml",
                                     opt  |-> lastcall.opt_id]}
        /\ (lastcall.opt_id = PyNone /\ DOMAIN storage # {}) =>
               /\ err = "ok"
               /\ {f.opt : f \in lastcall.files}
                      = {Val(o) : o \in DOMAIN storage}
               /\ Cardinality(lastcall.files) = Cardinality(DOMAIN storage)
               /\ \A f \in lastcall.files :
                      \E t \in {"0_Opt", "1_Opt"} :
                          f.path = lastcall.name \o "/" \o t \o ".yml"

\* ------------------------------------------------------------------------
\* Claims about loading the ParAMS collections
\* ------------------------------------------------------------------------

\* What the claim has loaded into the object of collection name: the pickle
\* alone when it exists, else the YAML file.
ClaimedLoads(fs, name) ==
    LET pkl == name \o ".pkl"
        yml == name \o ".yml"
    IN  IF Exists(fs, pkl)
        THEN <<[loader |-> "pickle_load", file |-> pkl, content |-> fs[pkl]]>>
        ELSE <<[loader |-> "load", file |-> yml, content |-> fs[yml]]>>

\* C24 (as stated): for each of data_set and job_collection the pickle has
\* priority: when both files exist only the pickle is loaded, when one
\* exists that one is loaded, and when neither exists for a collection the
\* call raises FileNotFoundError.
C24_PicklePriority ==
    pcalled =>
        LET missing == {n \in DOMAIN CollectionNames :
                           \A k \in DOMAIN Loaders :
                               ~Exists(files, CollectionNames[n]
                                                 \o Loaders[k].suffix)}
        IN  /\ missing # {} <=> perr = "FileNotFoundError"
            /\ missing = {} =>
                   /\ perr = "None"
                   /\ dat_set = ClaimedLoads(files, "data_set")
                   /\ job_col = ClaimedLoads(files, "job_collection")

\* ------------------------------------------------------------------------
\* Further claims about the workers
\* ------------------------------------------------------------------------

\* A bad start in the claim's words: some coordinate of x0 outside its
\* bound, or some bound with min equal to max.
BadStart(c) ==
    \/ \E i \in DOMAIN c.x0 :
           c.x0[i] < c.bounds[i][1] \/ c.x0[i] > c.bounds[i][2]
    \/ \E i \in DOMAIN c.bounds : c.bounds[i][1] = c.bounds[i][2]

\* Nothing has been evaluated and nothing has reached the manager.
NothingDone == nevals = 0 /\ queue = <<>> /\ outbox = <<>>

\* C25 (as stated): GFLSOptimizer.minimize on a bad start raises ValueError
\* before any objective evaluation and before any packet or message is sent
\* to the manager.
C25_BadStartRaisesValueError ==
    (kind = "GFLS" /\ BadStart(cfg) /\ pc # "start") =>
        pc = "crashed" /\ exc = "ValueError" /\ NothingDone

\* C25 (amended): GFLSOptimizer.minimize on a bad start raises before any
\* objective evaluation and before any packet or message is sent to the
\* manager; the exception is ValueError when function.__wrapped__.resids
\* is a callable. That attribute is looked at first: when it is absent the
\* exception is AttributeError, and when it is present and not callable
\* NotImplementedError.
C25_BadStartFailsFast ==
    (kind = "GFLS" /\ BadStart(cfg) /\ pc # "start") =>
        /\ pc = "crashed" /\ NothingDone
        /\ cfg.resids = "callable" => exc = "ValueError"
        /\ cfg.resids = "absent" => exc = "AttributeError"
        /\ cfg.resids = "not callable" => exc = "NotImplementedError"

\* A run with good bounds, a callable resids and the second coordinate of
\* x0 above its bound has ended with ValueError.
C25_Witness ==
    /\ kind = "GFLS" /\ pc = "crashed" /\ exc = "ValueError"
    /\ cfg.resids = "callable" /\ BadStart(cfg)
    /\ cfg.bounds = GoodBounds /\ cfg.x0 = <<1, 3>>

\* The number of final=false packets on the queue.
NonFinal(q) == Cardinality({j \in 1 .. Len(q) : ~q[j].final})

\* What of the current iteration is done when the CMA worker stands before
\* each step: before evaluate, ask is done; before tell, the evaluations
\* are made; before the put, tell has counted the iteration; before the
\* poll and before the wait on the pause flag, the packet of this iteration
\* is the last one on the queue.
StepsDoneBefore ==
    /\ pc = "eval" => has_x /\ nevals = countiter /\ NonFinal(queue) = countiter
    /\ pc = "tell" => nevals = countiter + 1 /\ NonFinal(queue) = countiter
    /\ pc = "push" => nevals = countiter /\ NonFinal(queue) = countiter - 1
    /\ pc \in {"check", "pause"} =>
           /\ nevals = countiter /\ NonFinal(queue) = countiter
           /\ queue # <<>>
           /\ queue[Len(queue)] = IterationResult(countiter, FALSE)

\* C27 (as stated): every iteration of the CMAOptimizer loop goes ask,
\* evaluate, tell, emit result (final=false), poll signals, check pause
\* flag: each step of the worker leads to the next one of that order, the
\* pipe is read inside the loop only by the poll, and the result of the
\* iteration is on the queue before the poll and before the worker can
\* block on the pause flag.
C27_CMALoopOrder ==
    [][kind = "CMA" =>
          /\ StepsDoneBefore'
          /\ (pc = "ask" /\ pc' # pc) => pc' = "eval"
          /\ (pc = "eval" /\ pc' # pc) => pc' = "tell"
          /\ (pc = "tell" /\ pc' # pc) => pc' = "push"
          /\ (pc = "push" /\ pc' # pc) => pc' = "check" /\ Len(queue') = Len(queue) + 1
          /\ (pc = "check" /\ pc' # pc) => pc' \in {"pause", "crashed"}
          /\ (pc = "pause" /\ pc' # pc) => pause
          /\ (pc \in {"ask", "eval", "tell", "push", "pause"}) =>
                 Len(pipe') >= Len(pipe)]_vars

\* A CMA worker in its second iteration, blocked on the cleared pause flag
\* with both packets on the queue and a signal that arrived after the poll.
C27_Witness ==
    /\ kind = "CMA" /\ pc = "pause" /\ ~pause
    /\ countiter = 2 /\ NonFinal(queue) = 2
    /\ pipe # <<>>

\* C29 (as stated): when the stop signal is sent to a CMAOptimizer worker
\* blocked on the cleared pause flag, the worker, once the flag is set,
\* makes no further round of objective evaluations and puts no further
\* final=false packet before its final packet and its exit.
C29_StopWhileBlockedEndsRun ==
    stopblocked # -1 =>
        /\ nevals = stopblocked
        /\ NonFinal(queue) = stopblocked

\* ------------------------------------------------------------------------
\* Further claims about the hunters
\* ------------------------------------------------------------------------

\* The history, given by its f_call_opt track, cannot cover a window of
\* calls evaluations: it is empty, or the victim has used no more than
\* calls evaluations, or no iteration lies calls evaluations back from the
\* latest one.
WindowUncovered(fcalls, calls) ==
    \/ fcalls = <<>>
    \/ fcalls[Len(fcalls)] <= calls
    \/ \A j \in 1 .. Len(fcalls) :
           fcalls[Len(fcalls)] - fcalls[j] < calls

\* C30 (as stated): for any history of a victim of the log, the empty one
\* and one too short for the window included, PseudoConverged does not
\* raise and returns a boolean, False when the window cannot be covered,
\* and its last_result equals the value returned.
C30_PseudoConvergedNeverRaises ==
    (lastcall.op = "PseudoConverged" /\ lastcall.opt_id \in DOMAIN storage) =>
        /\ err = "ok"
        /\ lastcall.ret \in {"True", "False"}
        /\ lastcall.last_result = lastcall.ret
        /\ WindowUncovered(get_history(storage, lastcall.opt_id, "f_call_opt"),
                           lastcall.calls) => lastcall.ret = "False"

====
